---------------------------- MODULE Spec2Model ----------------------------
(***************************************************************************)
(* A model of mousebender/simple.py: the PEP 503 project-URL builder, the  *)
(* repository-index HTML parser and the project-details (archive link)     *)
(* HTML parser.                                                            *)
(*                                                                         *)
(* Python strings are modelled as sequences of one-character strings, so   *)
(* that lowercasing, splitting, percent-decoding and entity-decoding are   *)
(* computed character by character.  The HTML tokenizer                    *)
(* (html.parser.HTMLParser.feed) is the environment: it delivers start-tag,*)
(* end-tag and text events to the handlers one at a time.                  *)
(***************************************************************************)
EXTENDS Naturals, Sequences, FiniteSets, TLC

VARIABLES
    \* create_project_url
    base_url, project_name, url_pc, project_url,
    \* _SimpleIndexHTMLParser / from_project_index_html
    idx_pc, idx_hist, parsing_anchor, names, project_index,
    \* _ArchiveLinkHTMLParser / from_project_details_html
    pc, hist, archive_links, project_details

url_vars == <<base_url, project_name, url_pc, project_url>>
idx_vars == <<idx_pc, idx_hist, parsing_anchor, names, project_index>>
det_vars == <<pc, hist, archive_links, project_details>>
vars == <<url_vars, idx_vars, det_vars>>

-----------------------------------------------------------------------------
(* Bounds of the model.                                                    *)

MaxBaseLen == 3
MaxNameLen == 2
MaxIndexEvents == 7
MaxEvents == 2

-----------------------------------------------------------------------------
(* Strings.                                                                *)

SeqsUpTo(S, n) == UNION {[1..k -> S] : k \in 0..n}

Last(s) == s[Len(s)]

\* str.endswith(c) for a one-character suffix
EndsWith(s, c) == Len(s) > 0 /\ Last(s) = c

\* str.lower() on one character: the ASCII letters
UpperLetters ==
    <<"A", "B", "C", "D", "E", "F", "G", "H", "I", "J", "K", "L", "M",
      "N", "O", "P", "Q", "R", "S", "T", "U", "V", "W", "X", "Y", "Z">>

LowerLetters ==
    <<"a", "b", "c", "d", "e", "f", "g", "h", "i", "j", "k", "l", "m",
      "n", "o", "p", "q", "r", "s", "t", "u", "v", "w", "x", "y", "z">>

LowerChar(c) ==
    IF \E i \in 1..Len(UpperLetters) : UpperLetters[i] = c
    THEN LowerLetters[CHOOSE i \in 1..Len(UpperLetters) : UpperLetters[i] = c]
    ELSE c

\* str.lower()
Lower(s) == [i \in 1..Len(s) |-> LowerChar(s[i])]

\* str.find(c): the first index of c in s (1-based), 0 when absent
RECURSIVE FindFrom(_, _, _)
FindFrom(s, c, i) ==
    IF i > Len(s) THEN 0
    ELSE IF s[i] = c THEN i
    ELSE FindFrom(s, c, i + 1)

Find(s, c) == FindFrom(s, c, 1)

\* str.rfind(c): the last index of c in s (1-based), 0 when absent
RECURSIVE RFindFrom(_, _, _)
RFindFrom(s, c, i) ==
    IF i < 1 THEN 0
    ELSE IF s[i] = c THEN i
    ELSE RFindFrom(s, c, i - 1)

RFind(s, c) == RFindFrom(s, c, Len(s))

Before(s, i) == SubSeq(s, 1, i - 1)
After(s, i) == SubSeq(s, i + 1, Len(s))

\* the element of a one-element set: Only({ F(v) : v \in {e} }) is F(e),
\* with e computed once
Only(S) == CHOOSE x \in S : TRUE

\* str.partition(c): <<before, after>> of the first c, the whole string and
\* "" when there is none
Partition(s, c) ==
    Only({ IF i = 0 THEN <<s, <<>>>> ELSE <<Before(s, i), After(s, i)>> :
           i \in {Find(s, c)} })

-----------------------------------------------------------------------------
(* packaging.utils.canonicalize_name: re.sub(r"[-_.]+", "-", name).lower() *)

IsNameSep(c) == c \in {"-", "_", "."}

RECURSIVE CollapseSeps(_)
CollapseSeps(s) ==
    IF s = <<>> THEN <<>>
    ELSE IF IsNameSep(s[1])
         THEN IF Len(s) > 1 /\ IsNameSep(s[2])
              THEN CollapseSeps(Tail(s))
              ELSE <<"-">> \o CollapseSeps(Tail(s))
         ELSE <<s[1]>> \o CollapseSeps(Tail(s))

canonicalize_name(name) == Lower(CollapseSeps(name))

-----------------------------------------------------------------------------
(* create_project_url                                                      *)

\* faulty variant: the emptiness test of the guard dropped
NormalizeBaseNoEmptyTest(b) == IF ~EndsWith(b, "/") THEN b \o <<"/">> ELSE b

\* if base_url and not base_url.endswith("/"): base_url += "/"
NormalizeBase(b) ==
    IF b # <<>> /\ ~EndsWith(b, "/") THEN b \o <<"/">> ELSE b

\* "".join([base_url, canonicalize_name(project_name), "/"])
CreateProjectUrl(b, n) == NormalizeBase(b) \o canonicalize_name(n) \o <<"/">>

BaseChars == {"h", "/"}
NameChars == {"A", "a", "_", "-", "."}

InitUrlIdle ==
    /\ base_url = <<>>
    /\ project_name = <<>>
    /\ url_pc = "idle"
    /\ project_url = <<>>

InitUrl ==
    /\ base_url \in SeqsUpTo(BaseChars, MaxBaseLen)
    /\ project_name \in SeqsUpTo(NameChars, MaxNameLen)
    /\ url_pc = "call"
    /\ project_url = <<>>

create_project_url ==
    /\ url_pc = "call"
    /\ project_url' = CreateProjectUrl(base_url, project_name)
    /\ url_pc' = "done"
    /\ UNCHANGED <<base_url, project_name>>
    /\ UNCHANGED <<idx_vars, det_vars>>

-----------------------------------------------------------------------------
(* Tokenizer events.  HTMLParser.feed calls handle_starttag(tag, attrs),   *)
(* handle_endtag(tag) and handle_data(data) in document order.             *)

StartTag(tag, attrs) == [type |-> "start", tag |-> tag, attrs |-> attrs, data |-> <<>>]
EndTag(tag) == [type |-> "end", tag |-> tag, attrs |-> <<>>, data |-> <<>>]
Data(data) == [type |-> "data", tag |-> "", attrs |-> <<>>, data |-> data]

\* "a" and one tag that is not "a"
Tags == {"a", "b"}

-----------------------------------------------------------------------------
(* _SimpleIndexHTMLParser                                                  *)

\* text nodes the index documents are made of: a name with surrounding
\* blanks, upper case and an underscore, and a plain name
IndexTexts == { <<" ", "H", "_", "b", " ">>, <<"a">> }

\* faulty variant: the tag test of handle_endtag dropped
IndexEndTagAnyTag(flag, tag) == FALSE

\* _SimpleIndexHTMLParser.handle_starttag
IndexStartTag(flag, tag) == IF tag # "a" THEN flag ELSE TRUE

\* _SimpleIndexHTMLParser.handle_endtag
IndexEndTag(flag, tag) == IF tag # "a" THEN flag ELSE FALSE

\* faulty variant: the name is canonicalized before it is stored
IndexDataCanonical(flag, ns, data) ==
    IF flag THEN Append(ns, canonicalize_name(data)) ELSE ns

\* _SimpleIndexHTMLParser.handle_data
IndexData(flag, ns, data) == IF flag THEN Append(ns, data) ELSE ns

NoProjectIndex == [meta |-> ("api-version" :> ""), projects |-> <<>>]

\* the dict from_project_index_html builds from parser.names
ProjectIndexOf(ns) ==
    [meta |-> ("api-version" :> "1.0"),
     projects |-> [i \in 1..Len(ns) |-> [name |-> ns[i]]]]

InitIndexIdle ==
    /\ idx_pc = "idle"
    /\ idx_hist = <<>>
    /\ parsing_anchor = FALSE
    /\ names = <<>>
    /\ project_index = NoProjectIndex

\* _SimpleIndexHTMLParser.__init__, before parser.feed(html)
InitIndex ==
    /\ idx_pc = "feeding"
    /\ idx_hist = <<>>
    /\ parsing_anchor = FALSE
    /\ names = <<>>
    /\ project_index = NoProjectIndex

IndexCanFeed == idx_pc = "feeding" /\ Len(idx_hist) < MaxIndexEvents

index_handle_starttag ==
    /\ IndexCanFeed
    /\ \E tag \in Tags :
          /\ idx_hist' = Append(idx_hist, StartTag(tag, <<>>))
          /\ parsing_anchor' = IndexStartTag(parsing_anchor, tag)
    /\ UNCHANGED <<idx_pc, names, project_index>>
    /\ UNCHANGED <<url_vars, det_vars>>

index_handle_endtag ==
    /\ IndexCanFeed
    /\ \E tag \in Tags :
          /\ idx_hist' = Append(idx_hist, EndTag(tag))
          /\ parsing_anchor' = IndexEndTag(parsing_anchor, tag)
    /\ UNCHANGED <<idx_pc, names, project_index>>
    /\ UNCHANGED <<url_vars, det_vars>>

index_handle_data ==
    /\ IndexCanFeed
    /\ \E data \in IndexTexts :
          /\ idx_hist' = Append(idx_hist, Data(data))
          /\ names' = IndexData(parsing_anchor, names, data)
    /\ UNCHANGED <<idx_pc, parsing_anchor, project_index>>
    /\ UNCHANGED <<url_vars, det_vars>>

\* parser.feed(html) has returned: the document is idx_hist
from_project_index_html ==
    /\ idx_pc = "feeding"
    /\ idx_pc' = "done"
    /\ project_index' = ProjectIndexOf(names)
    /\ UNCHANGED <<idx_hist, parsing_anchor, names>>
    /\ UNCHANGED <<url_vars, det_vars>>

-----------------------------------------------------------------------------
(* Python values.  An attribute value is None (an attribute written        *)
(* without a value) or a string; a value stored in a record is a bool, a   *)
(* string or a dict (a set of <<key, value>> pairs).                       *)

None == [none |-> TRUE, s |-> <<>>]
Some(s) == [none |-> FALSE, s |-> s]

\* the truth value of an attribute value: None and "" are false
Truthy(v) == ~v.none /\ v.s # <<>>

PyBool(b) == [t |-> "bool", b |-> b, s |-> <<>>, d |-> {}]
PyStr(s) == [t |-> "str", b |-> FALSE, s |-> s, d |-> {}]
PyDict(d) == [t |-> "dict", b |-> FALSE, s |-> <<>>, d |-> d]
PyTrue == PyBool(TRUE)

\* dict(attrs_list): a key is in the dict when some pair names it, and a
\* repeated key keeps the value of its last pair
HasAttr(attrs, k) == \E i \in 1..Len(attrs) : attrs[i][1] = k

AttrOf(attrs, k) ==
    attrs[CHOOSE i \in 1..Len(attrs) :
              /\ attrs[i][1] = k
              /\ \A j \in (i + 1)..Len(attrs) : attrs[j][1] # k][2]

-----------------------------------------------------------------------------
(* urllib.parse.urlparse, urlunparse and unquote                           *)

Letters == {UpperLetters[i] : i \in 1..Len(UpperLetters)}
           \cup {LowerLetters[i] : i \in 1..Len(LowerLetters)}
Digits == {"0", "1", "2", "3", "4", "5", "6", "7", "8", "9"}
SchemeChars == Letters \cup Digits \cup {"+", "-", "."}

\* urllib.parse.uses_params and uses_netloc: the schemes of the web among them
UsesParams == { <<>>, <<"h", "t", "t", "p">>,
                <<"h", "t", "t", "p", "s">>, <<"f", "t", "p">> }
UsesNetloc == { <<>>, <<"h", "t", "t", "p">>,
                <<"h", "t", "t", "p", "s">>, <<"f", "t", "p">>, <<"f", "i", "l", "e">> }

\* the index of the first of "/", "?", "#" at or after position i, or
\* Len(s) + 1: where _splitnetloc ends the netloc
RECURSIVE NetlocEnd(_, _)
NetlocEnd(s, i) ==
    IF i > Len(s) THEN Len(s) + 1
    ELSE IF s[i] \in {"/", "?", "#"} THEN i
    ELSE NetlocEnd(s, i + 1)

\* urlsplit's scheme: the text before the first ":" when it starts with a
\* letter and is made of scheme characters; 0 when there is no scheme
SchemeEnd(url) ==
    Only({ IF /\ i > 1
              /\ url[1] \in Letters
              /\ \A j \in 1..(i - 1) : url[j] \in SchemeChars
           THEN i ELSE 0 : i \in {Find(url, ":")} })

\* urllib.parse._splitparams
SplitParams(url) ==
    Only({ IF i = 0 THEN <<url, <<>>>> ELSE <<Before(url, i), After(url, i)>> :
           i \in { IF RFind(url, "/") > 0
                   THEN FindFrom(url, ";", RFind(url, "/"))
                   ELSE Find(url, ";") } })

\* urlparse, last step: the params are split off the path
UrlParsePath(scheme, netloc, path, query, fragment) ==
    Only({ [scheme |-> scheme, netloc |-> netloc, path |-> split[1],
            params |-> split[2], query |-> query, fragment |-> fragment] :
           split \in { IF scheme \in UsesParams /\ Find(path, ";") > 0
                       THEN SplitParams(path) ELSE <<path, <<>>>> } })

\* urlsplit, third step: the fragment, then the query
UrlParseTail(scheme, netloc, rest) ==
    Only({ Only({ UrlParsePath(scheme, netloc, q[1], q[2], f[2]) :
                  q \in {Partition(f[1], "?")} }) :
           f \in {Partition(rest, "#")} })

\* urlsplit, second step: the netloc after a leading "//"
UrlParseNetloc(scheme, rest) ==
    IF Len(rest) >= 2 /\ rest[1] = "/" /\ rest[2] = "/"
    THEN Only({ UrlParseTail(scheme, SubSeq(rest, 3, ne - 1),
                             SubSeq(rest, ne, Len(rest))) :
                ne \in {NetlocEnd(rest, 3)} })
    ELSE UrlParseTail(scheme, <<>>, rest)

\* urllib.parse.urlparse(url)
urlparse(url) ==
    Only({ IF se > 0
           THEN UrlParseNetloc(Lower(Before(url, se)), After(url, se))
           ELSE UrlParseNetloc(<<>>, url) :
           se \in {SchemeEnd(url)} })

\* urllib.parse.urlunsplit, from the netloc on
UrlUnsplit(scheme, netloc, url, query, fragment) ==
    (IF scheme # <<>> THEN scheme \o <<":">> ELSE <<>>)
    \o (IF \/ netloc # <<>>
           \/ /\ scheme # <<>>
              /\ scheme \in UsesNetloc
              /\ ~(Len(url) >= 2 /\ url[1] = "/" /\ url[2] = "/")
        THEN <<"/", "/">> \o netloc
             \o (IF url # <<>> /\ url[1] # "/" THEN <<"/">> ELSE <<>>)
        ELSE <<>>)
    \o url
    \o (IF query # <<>> THEN <<"?">> \o query ELSE <<>>)
    \o (IF fragment # <<>> THEN <<"#">> \o fragment ELSE <<>>)

\* urllib.parse.urlunparse((scheme, netloc, path, params, query, fragment))
urlunparse(scheme, netloc, path, params, query, fragment) ==
    UrlUnsplit(scheme, netloc,
               IF params # <<>> THEN path \o <<";">> \o params ELSE path,
               query, fragment)

HexDigits ==
    Digits \cup {"a", "b", "c", "d", "e", "f", "A", "B", "C", "D", "E", "F"}

\* the character a percent-escape stands for: the escapes of the model's
\* hrefs ("%41", "%42", "%23"); no other escape occurs in them
PercentChar(hi, lo) ==
    CASE hi = "4" /\ lo = "1" -> "A"
      [] hi = "4" /\ lo = "2" -> "B"
      [] hi = "2" /\ lo = "3" -> "#"
      [] OTHER -> "?"

\* urllib.parse.unquote(s)
RECURSIVE unquote(_)
unquote(s) ==
    IF s = <<>> THEN <<>>
    ELSE IF s[1] = "%" /\ Len(s) >= 3 /\ s[2] \in HexDigits /\ s[3] \in HexDigits
         THEN <<PercentChar(s[2], s[3])>> \o unquote(SubSeq(s, 4, Len(s)))
         ELSE <<s[1]>> \o unquote(Tail(s))

-----------------------------------------------------------------------------
(* html.unescape                                                           *)

\* the named character references the model's values can spell; the
\* table html.entities.html5 holds them with and without the ";"
EntityNames == { <<"g", "t", ";">>, <<"g", "t">>, <<"l", "t", ";">>, <<"l", "t">>,
                 <<"a", "m", "p", ";">>, <<"a", "m", "p">> }

EntityChar(e) ==
    CASE e[1] = "g" -> ">"
      [] e[1] = "l" -> "<"
      [] OTHER -> "&"

\* the length of the longest prefix of s, up to 32 characters, without a
\* blank, "<", "&", "#" or ";": the name in &([^\t\n\f <&#;]{1,32};?)
RECURSIVE NameRun(_, _)
NameRun(s, n) ==
    IF n < Len(s) /\ n < 32 /\ s[n + 1] \notin {" ", "<", "&", "#", ";"}
    THEN NameRun(s, n + 1) ELSE n

\* html._replace_charref for a named reference g (the text after "&")
ReplaceCharref(g) ==
    IF g \in EntityNames THEN <<EntityChar(g)>>
    ELSE LET xs == {x \in 2..(Len(g) - 1) : SubSeq(g, 1, x) \in EntityNames}
         IN  IF xs = {} THEN <<"&">> \o g
             ELSE LET x == CHOOSE y \in xs : \A z \in xs : z <= y
                  IN  <<EntityChar(g)>> \o SubSeq(g, x + 1, Len(g))

\* html.unescape(s): every reference is replaced once, left to right
RECURSIVE unescape(_)
unescape(s) ==
    IF s = <<>> THEN <<>>
    ELSE IF s[1] # "&" THEN <<s[1]>> \o unescape(Tail(s))
    ELSE Only({ IF n = 0 THEN <<"&">> \o unescape(Tail(s))
                ELSE Only({ ReplaceCharref(SubSeq(s, 2, m + 1))
                            \o unescape(SubSeq(s, m + 2, Len(s))) :
                            m \in {IF n + 1 < Len(s) /\ s[n + 2] = ";"
                                   THEN n + 1 ELSE n} }) :
                n \in {NameRun(Tail(s), 0)} })

-----------------------------------------------------------------------------
(* _ArchiveLinkHTMLParser                                                  *)

\* tag == "a" and the href is present and not empty (lines 139-145)
AcceptsAnchor(tag, attrs) ==
    /\ tag = "a"
    /\ HasAttr(attrs, "href")
    /\ Truthy(AttrOf(attrs, "href"))

\* parsed_url.path.rpartition("/")[2], unquoted
FilenameOf(parsed) ==
    unquote(SubSeq(parsed.path, RFind(parsed.path, "/") + 1, Len(parsed.path)))

\* urlunparse((*parsed_url[:5], "")): the href without its fragment
UrlOf(parsed) ==
    urlunparse(parsed.scheme, parsed.netloc, parsed.path, parsed.params,
               parsed.query, <<>>)

\* hash_algo, hash_value = parsed_url.fragment.split("=", 1) raises
\* ValueError when the fragment is not empty and holds no "="
FragmentRaises(parsed) ==
    parsed.fragment # <<>> /\ Find(parsed.fragment, "=") = 0

\* args["hashes"] = hash_algo.lower(), hash_value (lines 158-160)
WithHashes(args, parsed) ==
    IF parsed.fragment # <<>>
    THEN Only({ args @@ ("hashes" :> <<Lower(p[1]), p[2]>>) :
                p \in {Partition(parsed.fragment, "=")} })
    ELSE args

\* faulty variant: the value stored without html.unescape
WithRequiresPythonRaw(args, attrs) ==
    IF HasAttr(attrs, "data-requires-python")
       /\ Truthy(AttrOf(attrs, "data-requires-python"))
    THEN args @@ ("requires-python" :> AttrOf(attrs, "data-requires-python").s)
    ELSE args

\* lines 166-168
WithRequiresPython(args, attrs) ==
    IF HasAttr(attrs, "data-requires-python")
       /\ Truthy(AttrOf(attrs, "data-requires-python"))
    THEN args @@ ("requires-python" :>
                      unescape(AttrOf(attrs, "data-requires-python").s))
    ELSE args

\* lines 172-173
WithGpgSig(args, attrs) ==
    IF HasAttr(attrs, "data-gpg-sig")
    THEN args @@ ("gpg-sig" :> (AttrOf(attrs, "data-gpg-sig") = Some(<<"t", "r", "u", "e">>)))
    ELSE args

\* faulty variant: the value "true" read as the boolean
WithYankedTrueAsBool(args, attrs) ==
    IF HasAttr(attrs, "data-yanked")
    THEN Only({ args @@ ("yanked" :> IF Truthy(v) /\ v.s # <<"t", "r", "u", "e">>
                                  THEN PyStr(v.s) ELSE PyTrue) :
                v \in {AttrOf(attrs, "data-yanked")} })
    ELSE args

\* args["yanked"] = attrs.get("data-yanked") or True (lines 177-178)
WithYanked(args, attrs) ==
    IF HasAttr(attrs, "data-yanked")
    THEN Only({ args @@ ("yanked" :> IF Truthy(v) THEN PyStr(v.s) ELSE PyTrue) :
                v \in {AttrOf(attrs, "data-yanked")} })
    ELSE args

\* lines 182-196
WithMetadata(args, attrs) ==
    IF HasAttr(attrs, "data-dist-info-metadata")
    THEN Only({
             IF Truthy(found) /\ found.s # <<"t", "r", "u", "e">>
             THEN Only({ args @@ ("metadata" :> <<Lower(p[1]), p[2]>>) :
                         p \in {Partition(found.s, "=")} })
             ELSE args @@ ("metadata" :> << <<>>, <<>> >>) :
             found \in {AttrOf(attrs, "data-dist-info-metadata")} })
    ELSE args

\* the args dict handle_starttag builds for an accepted anchor whose
\* fragment does not raise
ArchiveLinkArgs(attrs, parsed) ==
    WithMetadata(
      WithYanked(
        WithGpgSig(
          WithRequiresPython(
            WithHashes(("filename" :> FilenameOf(parsed)) @@ ("url" :> UrlOf(parsed)),
                       parsed),
            attrs), attrs), attrs), attrs)

\* faulty variant: the link is put in front of the list
AppendLinkInFront(links, attrs, parsed) ==
    IF FragmentRaises(parsed) THEN [raised |-> TRUE, links |-> links]
    ELSE [raised |-> FALSE, links |-> <<ArchiveLinkArgs(attrs, parsed)>> \o links]

\* faulty variant: a fragment without "=" is skipped with its anchor
AppendLinkSkipBad(links, attrs, parsed) ==
    IF FragmentRaises(parsed) THEN [raised |-> FALSE, links |-> links]
    ELSE [raised |-> FALSE, links |-> Append(links, ArchiveLinkArgs(attrs, parsed))]

\* handle_starttag from the parsed href on (lines 147-198): the list of
\* links afterwards, and whether the call raised (then nothing was appended)
AppendLink(links, attrs, parsed) ==
    IF FragmentRaises(parsed) THEN [raised |-> TRUE, links |-> links]
    ELSE [raised |-> FALSE, links |-> Append(links, ArchiveLinkArgs(attrs, parsed))]

\* _ArchiveLinkHTMLParser.handle_starttag
HandleStartTag(links, tag, attrs) ==
    IF ~AcceptsAnchor(tag, attrs) THEN [raised |-> FALSE, links |-> links]
    ELSE Only({ AppendLink(links, attrs, parsed) :
                parsed \in {urlparse(AttrOf(attrs, "href").s)} })

-----------------------------------------------------------------------------
(* from_project_details_html                                               *)

\* lines 214-219
WithDistInfoMetadata(details, link) ==
    IF "metadata" \in DOMAIN link
    THEN IF link["metadata"][1] # <<>>
         THEN details @@ ("dist-info-metadata" :> PyDict({link["metadata"]}))
         ELSE details @@ ("dist-info-metadata" :> PyTrue)
    ELSE details

\* lines 220-222
CopiedKeys == {"requires-python", "yanked", "gpg-sig"}

WithCopiedKeys(details, link) ==
    details @@ [k \in CopiedKeys \cap DOMAIN link |-> link[k]]

\* the details dict of one archive link (lines 207-223)
FileDetails(link) ==
    WithCopiedKeys(
      WithDistInfoMetadata(
        ("filename" :> link["filename"]) @@ ("url" :> link["url"])
        @@ ("hashes" :> IF "hashes" \in DOMAIN link THEN {link["hashes"]} ELSE {}),
        link),
      link)

NoProjectDetails ==
    [meta |-> ("api-version" :> ""), name |-> <<>>, files |-> <<>>]

\* the dict from_project_details_html returns
ProjectDetailsOf(name, links) ==
    [meta |-> ("api-version" :> "1.0"),
     name |-> canonicalize_name(name),
     files |-> [i \in 1..Len(links) |-> FileDetails(links[i])]]

\* the hrefs of the model's anchors
Hrefs ==
    { <<"f">>,
      <<"d", "/", "f", "#", "m", "d", "5", "=", "a", "=", "b">>,
      <<"H", "T", "T", "P", ":", "/", "/", "h", "/", "d", "/", "f", "#", "M", "D", "5", "=", "a", "b">>,
      <<"d", "/">>,
      <<"#", "m", "d", "5", "=", "a", "b">>,
      <<"?", "q">>,
      <<"f", "#", "m", "d", "5">>,
      <<"d", "/", "f", "%", "4", "1">>,
      <<"f", "#">>,
      <<"f", ";", "p">>,
      <<"f", "?">>,
      <<"f", "#", "=", "a", "b">> }

F == <<"f">>

Href(h) == <<"href", Some(h)>>

RequiresPythonValues ==
    { None,
      Some(<<>>),
      Some(<<">", "=", "3">>),
      Some(<<"&", "g", "t", ";", "=", "3">>),
      Some(<<"&", "g", "t", "=", "3">>),
      Some(<<"&", "a", "m", "p", ";", "g", "t", ";">>) }

GpgSigValues ==
    { None,
      Some(<<"t", "r", "u", "e">>),
      Some(<<"f", "a", "l", "s", "e">>) }

YankedValues ==
    { None,
      Some(<<>>),
      Some(<<"f", "a", "l", "s", "e">>),
      Some(<<"t", "r", "u", "e">>),
      Some(<<"x", " ", "y">>) }

MetadataValues ==
    { None,
      Some(<<>>),
      Some(<<"t", "r", "u", "e">>),
      Some(<<"M", "D", "5", "=", "a", "b">>),
      Some(<<"m", "d", "5">>),
      Some(<<"=", "a", "b">>),
      Some(<<"T", "R", "U", "E">>),
      Some(<<"a", "=", "b", "=", "c">>) }

\* the attribute lists of the model's start tags
AttrLists ==
    { <<Href(h)>> : h \in Hrefs }
    \cup { <<Href(F), <<"data-requires-python", v>>>> : v \in RequiresPythonValues }
    \cup { <<Href(F), <<"data-gpg-sig", v>>>> : v \in GpgSigValues }
    \cup { <<<<"data-yanked", v>>, Href(F)>> : v \in YankedValues }
    \cup { <<Href(F), <<"data-dist-info-metadata", v>>>> : v \in MetadataValues }
    \cup { <<>>,
           <<<<"href", None>>>>,
           <<<<"href", Some(<<>>)>>, <<"data-yanked", None>>>>,
           <<<<"data-requires-python", Some(<<">", "=", "3">>)>>,
             <<"data-gpg-sig", Some(<<"t", "r", "u", "e">>)>>>>,
           <<Href(F), <<"href", Some(<<"d", "/", "f">>)>>>>,
           <<Href(F), <<"href", Some(<<>>)>>>> }

StartEvents ==
    { StartTag("a", attrs) : attrs \in AttrLists }
    \cup { StartTag("b", <<Href(F), <<"data-yanked", None>>>>) }

\* the events _ArchiveLinkHTMLParser does not override a handler for
OtherEvents == { EndTag("a"), Data(F) }

DeclaredNames == { <<"A", "_", ".", "b">> }

InitDetailsIdle ==
    /\ pc = "idle"
    /\ hist = <<>>
    /\ archive_links = <<>>
    /\ project_details = NoProjectDetails

\* _ArchiveLinkHTMLParser.__init__, before parser.feed(html)
InitDetails ==
    /\ pc = "feeding"
    /\ hist = <<>>
    /\ archive_links = <<>>
    /\ project_details = NoProjectDetails

CanFeed == pc = "feeding" /\ Len(hist) < MaxEvents

\* a start tag reaches handle_starttag; a ValueError leaves feed and
\* from_project_details_html, which then returns nothing
details_handle_starttag ==
    /\ CanFeed
    /\ \E ev \in StartEvents :
          \E r \in {HandleStartTag(archive_links, ev.tag, ev.attrs)} :
              /\ hist' = Append(hist, ev)
              /\ archive_links' = r.links
              /\ pc' = IF r.raised THEN "error" ELSE pc
    /\ UNCHANGED project_details
    /\ UNCHANGED <<url_vars, idx_vars>>

\* end tags and text: HTMLParser's own handlers, which do nothing
details_handle_other ==
    /\ CanFeed
    /\ \E ev \in OtherEvents : hist' = Append(hist, ev)
    /\ UNCHANGED <<pc, archive_links, project_details>>
    /\ UNCHANGED <<url_vars, idx_vars>>

\* parser.feed(html) has returned: the document is hist
from_project_details_html ==
    /\ pc = "feeding"
    /\ pc' = "done"
    /\ \E name \in DeclaredNames :
          project_details' = ProjectDetailsOf(name, archive_links)
    /\ UNCHANGED <<hist, archive_links>>
    /\ UNCHANGED <<url_vars, idx_vars>>

-----------------------------------------------------------------------------
(* The specifications: one per entry point.                                *)

NextUrl == create_project_url

\* a call of create_project_url; the parsers are not in use
InitUrlCall == InitUrl /\ InitIndexIdle /\ InitDetailsIdle

SpecUrl == InitUrlCall /\ [][NextUrl]_vars

NextIndex ==
    \/ index_handle_starttag
    \/ index_handle_endtag
    \/ index_handle_data
    \/ from_project_index_html

\* a call of from_project_index_html
InitIndexCall == InitUrlIdle /\ InitIndex /\ InitDetailsIdle

SpecIndex == InitIndexCall /\ [][NextIndex]_vars

Next ==
    \/ details_handle_starttag
    \/ details_handle_other
    \/ from_project_details_html

\* a call of from_project_details_html
Init == InitUrlIdle /\ InitIndexIdle /\ InitDetails

Spec == Init /\ [][Next]_vars

-----------------------------------------------------------------------------
(* The documents the claims speak of, read off the event history alone.    *)

\* an "a" start tag whose href attribute is present and not empty
IsAcceptedAnchor(ev) ==
    /\ ev.type = "start"
    /\ ev.tag = "a"
    /\ HasAttr(ev.attrs, "href")
    /\ ~AttrOf(ev.attrs, "href").none
    /\ AttrOf(ev.attrs, "href").s # <<>>

\* the accepted anchors of the document, in document order
AcceptedAnchors == SelectSeq(hist, IsAcceptedAnchor)

HrefOf(ev) == AttrOf(ev.attrs, "href").s

\* the text after the first "#" of an href, "" when there is none
FragmentOf(href) == Partition(href, "#")[2]

\* a fragment that is not empty and holds no "="
IsMalformedFragment(frag) == frag # <<>> /\ \A i \in 1..Len(frag) : frag[i] # "="

files == project_details.files

\* the call has returned a list with one record per accepted anchor
ReturnedAll == pc = "done" /\ Len(files) = Len(AcceptedAnchors)

TrueText == <<"t", "r", "u", "e">>

-----------------------------------------------------------------------------
(* C1: when from_project_details_html returns, files holds exactly one     *)
(* record per "a" start tag with a present, non-empty href, in document    *)
(* order, without reordering or deduplication: the i-th record carries the *)
(* URL of the i-th such anchor.  Anchors without href, with an empty href, *)
(* and tags other than "a" contribute nothing.                             *)
C1_OneRecordPerAnchorInOrder ==
    pc = "done" =>
        /\ Len(files) = Len(AcceptedAnchors)
        /\ \A i \in 1..Len(AcceptedAnchors) :
              files[i]["url"] = UrlOf(urlparse(HrefOf(AcceptedAnchors[i])))

\* two anchors with the same href, after which two records are returned
C1_Witness_Duplicates ==
    /\ pc = "done"
    /\ Len(hist) = 2
    /\ IsAcceptedAnchor(hist[1])
    /\ hist[2] = hist[1]
    /\ Len(files) = 2
    /\ files[1] = files[2]

(* C2: every returned record has a non-empty filename and a non-empty url, *)
(* also for hrefs whose path ends in "/", hrefs that are only a fragment   *)
(* and hrefs that are only a query string.                                 *)
C2_FilenameAndUrlNonEmpty ==
    pc = "done" =>
        \A i \in 1..Len(files) :
            files[i]["filename"] # <<>> /\ files[i]["url"] # <<>>

\* the hashes the claim expects for an href
ClaimedHashes(href) ==
    IF FragmentOf(href) = <<>> \/ IsMalformedFragment(FragmentOf(href))
    THEN {}
    ELSE {<<Lower(Partition(FragmentOf(href), "=")[1]),
            Partition(FragmentOf(href), "=")[2]>>}

(* C3: for every accepted anchor the record's hashes is empty when the     *)
(* href has no fragment or a fragment without "=", and otherwise maps the  *)
(* lowercased text before the first "=" to the text after it; the record   *)
(* is produced in the malformed case too, so the parse never fails.        *)
C3_HashesOrEmpty ==
    /\ pc # "error"
    /\ pc = "done" =>
          /\ Len(files) = Len(AcceptedAnchors)
          /\ \A i \in 1..Len(files) :
                files[i]["hashes"] = ClaimedHashes(HrefOf(AcceptedAnchors[i]))

\* base_url with every trailing "/" removed
RECURSIVE StripSlashes(_)
StripSlashes(b) ==
    IF EndsWith(b, "/") THEN StripSlashes(SubSeq(b, 1, Len(b) - 1)) ELSE b

(* C4 as stated: the result is base_url normalized to end with exactly one *)
(* "/", then the canonical project name, then one "/", also for a base_url *)
(* that ends with several "/" and for the empty base_url.                  *)
C4_ExactlyOneSlash ==
    url_pc = "done" =>
        project_url = StripSlashes(base_url) \o <<"/">>
                      \o canonicalize_name(project_name) \o <<"/">>

(* C4 as amended: the result is base_url, then a "/" only when base_url is *)
(* not empty and does not end with "/", then the canonical project name,   *)
(* then one "/".  A base_url ending with one or several "/" is used as it  *)
(* is, and the empty base_url contributes nothing.                         *)
C4_SlashAppendedWhenMissing ==
    url_pc = "done" =>
        /\ (base_url = <<>> \/ Last(base_url) = "/") =>
              project_url = base_url \o canonicalize_name(project_name) \o <<"/">>
        /\ (base_url # <<>> /\ Last(base_url) # "/") =>
              project_url = base_url \o <<"/">>
                            \o canonicalize_name(project_name) \o <<"/">>

\* a base_url ending with two "/", which the result keeps
C4_Witness_SeveralSlashes ==
    /\ url_pc = "done"
    /\ base_url = <<"h", "/", "/">>
    /\ project_name = <<"A", "_">>
    /\ project_url = <<"h", "/", "/", "a", "-", "/">>

\* the dist-info-metadata value the claim expects for an attribute value
ClaimedMetadata(v) ==
    IF v.none \/ v.s = <<>> \/ v.s = TrueText THEN PyTrue
    ELSE PyDict({<<Lower(Partition(v.s, "=")[1]), Partition(v.s, "=")[2]>>})

(* C5: for every accepted anchor dist-info-metadata is in the record iff   *)
(* the data-dist-info-metadata attribute is present; it is true exactly    *)
(* when the value is absent, empty or "true", and otherwise the one-entry  *)
(* mapping {lower(text before the first "="): text after it}, also when    *)
(* the text before the first "=" is empty.                                 *)
C5_MetadataTrueOrMapping ==
    ReturnedAll =>
        \A i \in 1..Len(files) :
            LET attrs == AcceptedAnchors[i].attrs
            IN  /\ ("dist-info-metadata" \in DOMAIN files[i])
                      <=> HasAttr(attrs, "data-dist-info-metadata")
                /\ HasAttr(attrs, "data-dist-info-metadata") =>
                      files[i]["dist-info-metadata"]
                          = ClaimedMetadata(AttrOf(attrs, "data-dist-info-metadata"))

(* C6 as stated: requires-python is in the record iff the                  *)
(* data-requires-python attribute was supplied, also with an empty or      *)
(* absent value, and then is the entity-decoded value.                     *)
C6_RequiresPythonIffSupplied ==
    ReturnedAll =>
        \A i \in 1..Len(files) :
            LET attrs == AcceptedAnchors[i].attrs
            IN  /\ ("requires-python" \in DOMAIN files[i])
                      <=> HasAttr(attrs, "data-requires-python")
                /\ ("requires-python" \in DOMAIN files[i]) =>
                      files[i]["requires-python"]
                          = unescape(AttrOf(attrs, "data-requires-python").s)

(* C6 as amended: requires-python is in the record iff the                 *)
(* data-requires-python attribute was supplied with a non-empty value, and *)
(* then is the entity-decoded value; an attribute without a value or with  *)
(* the empty value leaves the key out.                                     *)
C6_RequiresPythonIffNonEmpty ==
    ReturnedAll =>
        \A i \in 1..Len(files) :
            LET attrs == AcceptedAnchors[i].attrs
                given == /\ HasAttr(attrs, "data-requires-python")
                         /\ ~AttrOf(attrs, "data-requires-python").none
                         /\ AttrOf(attrs, "data-requires-python").s # <<>>
            IN  /\ ("requires-python" \in DOMAIN files[i]) <=> given
                /\ given =>
                      files[i]["requires-python"]
                          = unescape(AttrOf(attrs, "data-requires-python").s)

\* "&gt;=3" decoded to ">=3", next to an attribute without a value that
\* leaves the key out
C6_Witness_Decoded ==
    /\ pc = "done"
    /\ hist = << StartTag("a", <<Href(F), <<"data-requires-python",
                                            Some(<<"&", "g", "t", ";", "=", "3">>)>>>>),
                 StartTag("a", <<Href(F), <<"data-requires-python", None>>>>) >>
    /\ Len(files) = 2
    /\ files[1]["requires-python"] = <<">", "=", "3">>
    /\ "requires-python" \notin DOMAIN files[2]

(* C7: from_project_details_html returns a record for every anchor with a  *)
(* non-empty href, or fails and returns nothing; a document with an anchor *)
(* whose fragment holds no "=" is never answered with a files list.        *)
C7_CompleteOrError ==
    /\ pc = "done" =>
          /\ Len(files) = Len(AcceptedAnchors)
          /\ \A i \in 1..Len(AcceptedAnchors) :
                ~IsMalformedFragment(FragmentOf(HrefOf(AcceptedAnchors[i])))
    /\ pc # "done" => project_details = NoProjectDetails
    /\ (\E i \in 1..Len(AcceptedAnchors) :
            IsMalformedFragment(FragmentOf(HrefOf(AcceptedAnchors[i]))))
          => pc = "error"

\* a good anchor, then one whose fragment holds no "=": the call has failed
\* and returned nothing
C7_Witness_FailsOnBadFragment ==
    /\ pc = "error"
    /\ Len(hist) = 2
    /\ IsAcceptedAnchor(hist[1])
    /\ ~IsMalformedFragment(FragmentOf(HrefOf(hist[1])))
    /\ IsAcceptedAnchor(hist[2])
    /\ IsMalformedFragment(FragmentOf(HrefOf(hist[2])))
    /\ project_details = NoProjectDetails

IsATag(ev) == ev.type \in {"start", "end"} /\ ev.tag = "a"

\* the positions of the "a" start tags of the index document
AnchorStarts(h) == {i \in 1..Len(h) : h[i].type = "start" /\ h[i].tag = "a"}

\* the position of the end tag that closes the anchor opened at i: the
\* next "a" tag after i is an end tag; 0 when the anchor is not closed so
AnchorClose(h, i) ==
    LET later == {j \in (i + 1)..Len(h) : IsATag(h[j])}
    IN  IF later = {} THEN 0
        ELSE LET j == CHOOSE k \in later : \A l \in later : k <= l
             IN  IF h[j].type = "end" THEN j ELSE 0

\* the positions of the text nodes between i and j
TextsBetween(h, i, j) == {k \in (i + 1)..(j - 1) : h[k].type = "data"}

\* every anchor is opened, holds exactly one text node and is closed, and
\* every "a" end tag closes an anchor
IsPlainIndexDocument(h) ==
    /\ \A i \in AnchorStarts(h) :
          /\ AnchorClose(h, i) # 0
          /\ Cardinality(TextsBetween(h, i, AnchorClose(h, i))) = 1
    /\ \A j \in 1..Len(h) :
          (h[j].type = "end" /\ h[j].tag = "a") =>
              \E i \in AnchorStarts(h) : AnchorClose(h, i) = j

\* the text of the anchor opened at i of a plain index document
AnchorText(h, i) ==
    h[CHOOSE k \in TextsBetween(h, i, AnchorClose(h, i)) : TRUE].data

\* the k-th smallest element of a set of numbers
RECURSIVE Nth(_, _)
Nth(S, k) ==
    LET m == CHOOSE x \in S : \A y \in S : x <= y
    IN  IF k = 1 THEN m ELSE Nth(S \ {m}, k - 1)

(* C8: for a document in which each anchor is opened, holds exactly one    *)
(* text node and is closed, from_project_index_html returns api-version    *)
(* "1.0" and one project per anchor, in document order, named by the       *)
(* anchor's text as it is; text outside the anchors adds no entry.         *)
C8_OneProjectPerAnchor ==
    (idx_pc = "done" /\ IsPlainIndexDocument(idx_hist)) =>
        /\ project_index.meta["api-version"] = "1.0"
        /\ Len(project_index.projects) = Cardinality(AnchorStarts(idx_hist))
        /\ \A k \in 1..Len(project_index.projects) :
              project_index.projects[k].name
                  = AnchorText(idx_hist, Nth(AnchorStarts(idx_hist), k))

\* two anchors with a text node between them: two projects, in order, the
\* first name kept with its blanks, capital and underscore
C8_Witness_TwoAnchors ==
    /\ idx_pc = "done"
    /\ idx_hist = << StartTag("a", <<>>), Data(<<" ", "H", "_", "b", " ">>), EndTag("a"),
                     Data(<<"a">>),
                     StartTag("a", <<>>), Data(<<"a">>), EndTag("a") >>
    /\ project_index.projects = << [name |-> <<" ", "H", "_", "b", " ">>],
                                   [name |-> <<"a">>] >>

(* C9: for every accepted anchor yanked is in the record iff the           *)
(* data-yanked attribute is present; it is the boolean true when the       *)
(* attribute has no value or the empty value, and otherwise the attribute  *)
(* value as a string, unchanged ("true" and "false" stay strings).         *)
C9_YankedTrueOrReason ==
    ReturnedAll =>
        \A i \in 1..Len(files) :
            LET attrs == AcceptedAnchors[i].attrs
            IN  /\ ("yanked" \in DOMAIN files[i]) <=> HasAttr(attrs, "data-yanked")
                /\ HasAttr(attrs, "data-yanked") =>
                      files[i]["yanked"]
                          = IF AttrOf(attrs, "data-yanked").none
                               \/ AttrOf(attrs, "data-yanked").s = <<>>
                            THEN PyTrue
                            ELSE PyStr(AttrOf(attrs, "data-yanked").s)

\* data-yanked without a value next to data-yanked="true": the boolean and
\* the string
C9_Witness_BareAndTrueString ==
    /\ pc = "done"
    /\ hist = << StartTag("a", <<<<"data-yanked", None>>, Href(F)>>),
                 StartTag("a", <<<<"data-yanked", Some(TrueText)>>, Href(F)>>) >>
    /\ Len(files) = 2
    /\ files[1]["yanked"] = PyTrue
    /\ files[2]["yanked"] = PyStr(TrueText)

\* the most recent "a" tag among the first n events is a start tag
\* (false when there is none)
RECURSIVE InsideAnchor(_, _)
InsideAnchor(h, n) ==
    IF n = 0 THEN FALSE
    ELSE IF IsATag(h[n]) THEN h[n].type = "start"
    ELSE InsideAnchor(h, n - 1)

\* the texts, among the first n events, received inside an anchor
RECURSIVE CollectedTexts(_, _)
CollectedTexts(h, n) ==
    IF n = 0 THEN <<>>
    ELSE IF h[n].type = "data" /\ InsideAnchor(h, n - 1)
         THEN Append(CollectedTexts(h, n - 1), h[n].data)
         ELSE CollectedTexts(h, n - 1)

(* C10: at every point of the index extraction the "inside anchor" flag is *)
(* true exactly when the most recent "a" tag event was a start tag, and    *)
(* names holds exactly the text events received while the flag was true,   *)
(* each as its own entry, in arrival order.                                *)
C10_FlagAndNames ==
    /\ parsing_anchor = InsideAnchor(idx_hist, Len(idx_hist))
    /\ names = CollectedTexts(idx_hist, Len(idx_hist))

\* an anchor with two text chunks and a nested anchor: two entries, and the
\* text after the inner end tag is not collected
C10_Witness_ChunksAndNesting ==
    /\ idx_hist = << StartTag("a", <<>>), Data(<<"a">>), Data(<<" ", "H", "_", "b", " ">>),
                     StartTag("a", <<>>), EndTag("a"), Data(<<"a">>), EndTag("a") >>
    /\ names = << <<"a">>, <<" ", "H", "_", "b", " ">> >>
    /\ ~parsing_anchor

=============================================================================
